---- MODULE Spec2Model ----
(***************************************************************************)
(* Workday MCP service: the tool-calling orchestration of                  *)
(* MCPClient.process_query (get_worker_client.py) behind the FastAPI       *)
(* handler process_query (app.py).                                         *)
(*                                                                         *)
(* Every request q owns the locals of one process_query invocation         *)
(* (messages, response, tool_args, final_text, the loop position); the     *)
(* module-level mcp_client and its session are shared.  The language       *)
(* model and the MCP session are collaborators: each of their answers is   *)
(* drawn from a small set, and every call made to them is logged.          *)
(***************************************************************************)
EXTENDS Naturals, Sequences, FiniteSets, TLC

\* Most tool calls one assistant message carries in the model.
MaxCalls == 2

\* Requests the module can hold state for; Spec drives the ones in Clients.
QueryIds == {"q1", "q2"}
Clients == {"q1"}

\* Python's None where a str is expected (message.content is Optional[str]).
None == "<None>"

-----------------------------------------------------------------------------
(* Python values produced by json.loads: str, int and dict (insertion      *)
(* ordered key/value pairs).                                               *)

PyStrVal(s) == [t |-> "str", v |-> s, d |-> <<>>]
PyIntVal(s) == [t |-> "int", v |-> s, d |-> <<>>]
PyDict(pairs) == [t |-> "dict", v |-> "", d |-> pairs]

\* A local that no assignment has reached yet.
Unbound == [t |-> "unbound", v |-> "", d |-> <<>>]

RECURSIVE JoinWith(_, _)
\* sep.join(parts) for a sequence of str.
JoinWith(sep, parts) ==
    IF parts = <<>> THEN ""
    ELSE IF Len(parts) = 1 THEN Head(parts)
    ELSE Head(parts) \o sep \o JoinWith(sep, Tail(parts))

RECURSIVE PyRepr(_)
\* repr(value), which is what an f-string prints for a dict.
PyRepr(val) ==
    CASE val.t = "str" -> "'" \o val.v \o "'"
      [] val.t = "int" -> val.v
      [] val.t = "dict" ->
           "{" \o JoinWith(", ", [k \in 1..Len(val.d) |->
                     "'" \o val.d[k][1] \o "': " \o PyRepr(val.d[k][2])]) \o "}"

\* str(value): a str is itself, everything else prints as its repr.
PyStr(val) == IF val.t = "str" THEN val.v ELSE PyRepr(val)

\* key in d
HasKey(val, key) == \E k \in 1..Len(val.d) : val.d[k][1] = key
\* d[key]
GetKey(val, key) == val.d[CHOOSE k \in 1..Len(val.d) : val.d[k][1] = key][2]

-----------------------------------------------------------------------------
(* The arguments-as-text the language model can put in a tool call.        *)

RawWorker == "{\"worker_id\": \"42\"}"
RawMalformed == "{\"limit\": 5"
RawTemplate ==
    "{\"prompt_template\": \"worker_search_prompt\", \"template_args\": {\"limit\": 5}}"
RawTemplateOnly == "{\"prompt_template\": \"worker_search_prompt\"}"

\* json.loads(raw): [ok, value]; ok is FALSE when it raises JSONDecodeError.
JsonLoads(raw) ==
    CASE raw = RawWorker ->
           [ok |-> TRUE, value |-> PyDict(<< <<"worker_id", PyStrVal("42")>> >>)]
      [] raw = RawTemplate ->
           [ok |-> TRUE,
            value |-> PyDict(<< <<"prompt_template", PyStrVal("worker_search_prompt")>>,
                                <<"template_args",
                                  PyDict(<< <<"limit", PyIntVal("5")>> >>)>> >>)]
      [] raw = RawTemplateOnly ->
           [ok |-> TRUE,
            value |-> PyDict(<< <<"prompt_template", PyStrVal("worker_search_prompt")>> >>)]
      [] OTHER -> [ok |-> FALSE, value |-> Unbound]

-----------------------------------------------------------------------------
(* Answers of the collaborators.                                           *)

\* What the model asks for in one tool call, before the id is attached.
ToolCallChoices ==
    { [name |-> "get_worker_details_tool", arguments |-> RawWorker],
      [name |-> "get_workers_tool", arguments |-> RawMalformed],
      [name |-> "get_workers_tool", arguments |-> RawTemplate],
      [name |-> "get_workers_tool", arguments |-> RawTemplateOnly] }

\* The id the completion endpoint gives the k-th tool call of a message.
ToolCallId(k) == "call_" \o ToString(k)

\* message.tool_calls of an assistant message: 0..MaxCalls calls, ids distinct.
ToolCallLists ==
    UNION { { [k \in 1..n |-> [id |-> ToolCallId(k), name |-> f[k].name,
                               arguments |-> f[k].arguments]] :
              f \in [1..n -> ToolCallChoices] } : n \in 0..MaxCalls }

DirectText == "No workers found."
ClosingText == "Jane Doe is worker 42."

\* choices[0].message of the initial completion: plain text (or no content)
\* without tool calls, or tool calls with no content.
InitialMessages ==
    { [content |-> c, tool_calls |-> <<>>] : c \in {DirectText, None} }
    \cup { [content |-> None, tool_calls |-> tcs] : tcs \in ToolCallLists \ {<<>>} }

\* choices[0].message.content of the final completion.
FinalContents == {ClosingText, None}

\* str(e) of the exceptions of the collaborators.
LLMErrorText == "Connection error."
McpErrorText == "Connection closed"

\* `response` before anything is bound to it.
NoResult == [type |-> "unbound", tools |-> <<>>, content |-> None, tool_calls |-> <<>>]

\* The result of session.list_tools(): the tools get_worker_server.py registers.
ListToolsResult ==
    [type |-> "ListToolsResult",
     tools |-> << "get_workers_tool", "get_worker_details_tool" >>,
     content |-> None, tool_calls |-> <<>>]

\* The result of a chat completion with the given choices[0].message.
ChatCompletion(message) ==
    [type |-> "ChatCompletion", tools |-> <<>>,
     content |-> message.content, tool_calls |-> message.tool_calls]

\* What session.call_tool returns: a CallToolResult, the tool's JSON text as one
\* text item, or the server's report of a tool that raised (isError).
ToolResponses ==
    { [shape |-> "CallToolResult", isError |-> FALSE,
       content |-> << [type |-> "text", text |-> "{\"name\":\"Jane Doe\"}"] >>],
      [shape |-> "CallToolResult", isError |-> TRUE,
       content |-> << [type |-> "text",
                       text |-> "Error executing tool: Missing API token."] >>] }

NoResponse == [shape |-> "none", isError |-> FALSE, content |-> <<>>]

\* What session.get_prompt returns: the attributes the object exposes and its
\* role-tagged lines.  GetPromptResult has `messages`; `message` exists only when
\* the server sends it as an extra field.
PromptResponses ==
    { [has_messages |-> TRUE, has_message |-> FALSE,
       messages |-> << [role |-> "user", text |-> "I need to find employee information."] >>],
      [has_messages |-> TRUE, has_message |-> FALSE,
       messages |-> << [role |-> "user", text |-> "I need to find employee information."],
                       [role |-> "assistant", text |-> "Use get_workers_tool."] >>],
      [has_messages |-> TRUE, has_message |-> TRUE,
       messages |-> << [role |-> "user", text |-> "I need to find employee information."],
                       [role |-> "assistant", text |-> "Use get_workers_tool."] >>],
      [has_messages |-> TRUE, has_message |-> TRUE,
       messages |-> << [role |-> "assistant", text |-> "Use get_workers_tool."],
                       [role |-> None, text |-> "broken"] >>] }

\* No rendered template: get_prompt has not answered, or raised.
NoPrompt == [has_messages |-> FALSE, has_message |-> FALSE, messages |-> <<>>]

-----------------------------------------------------------------------------
(* Outcomes of a call: a returned value or a raised exception.             *)

Return(value) == [kind |-> "return", type |-> "str", value |-> value]
Raise(type, text) == [kind |-> "raise", type |-> type, value |-> text]
Running == [kind |-> "none", type |-> "", value |-> ""]

\* The response the HTTP layer sends: nothing yet, a QueryResponse, or the
\* HTTPException raised out of the handler.
NoReply ==
    [kind |-> "none", status |-> 0, success |-> FALSE, response |-> None,
     error |-> None, detail |-> ""]
QueryResponse(success, response, error) ==
    [kind |-> "QueryResponse", status |-> 200, success |-> success,
     response |-> response, error |-> error, detail |-> ""]
HTTPException(status, detail) ==
    [kind |-> "HTTPException", status |-> status, success |-> FALSE,
     response |-> None, error |-> None, detail |-> detail]

-----------------------------------------------------------------------------
(* The pure steps of MCPClient.process_query.                              *)

SystemPrompt ==
    "You are a professional AI Assistant. You can use the tools in the MCP Server to complete Workday HCM related tasks requested by the user."

\* The query each client sends.
QueryOf(q) == IF q = "q1" THEN "find worker 42" ELSE "list workers"

Message(role, content, tool_call_id, tool_calls) ==
    [role |-> role, content |-> content, tool_call_id |-> tool_call_id,
     tool_calls |-> tool_calls]

\* messages = [system, user]
InitialMessagesOf(query) ==
    << Message("system", SystemPrompt, None, <<>>),
       Message("user", query, None, <<>>) >>

\* str(tool_response) of a CallToolResult (pydantic's field=value rendering).
StrOfToolResponse(r) ==
    "meta=None content=["
    \o JoinWith(", ", [k \in 1..Len(r.content) |->
           "TextContent(type='text', text='" \o r.content[k].text \o "', annotations=None)"])
    \o "] isError=" \o (IF r.isError THEN "True" ELSE "False")

RECURSIVE ItemTexts(_)
\* text_content += item.text for every item that has a text.
ItemTexts(items) ==
    IF items = <<>> THEN ""
    ELSE (IF Head(items).type = "text" THEN Head(items).text ELSE "")
         \o ItemTexts(Tail(items))

\* tool_result_content: `tool_response.content` is read first (only a
\* CallToolResult has it); then a list gives the concatenated item texts, anything
\* else that is not a str gives str(tool_response), a str keeps `.content`.
ToolResultContent(r) ==
    IF r.shape # "CallToolResult"
    THEN Raise("AttributeError", "'" \o r.shape \o "' object has no attribute 'content'")
    ELSE IF r.shape = "list" THEN Return(ItemTexts(r.content))
    ELSE IF r.shape # "str" THEN Return(StrOfToolResponse(r))
    ELSE Return(ItemTexts(r.content))

\* f"Calling tool {tool_name} with args {tool_args}"
Announcement(tool_name, args) ==
    "Calling tool " \o tool_name \o " with args " \o PyStr(args)

\* A tool message that does not carry the id of its call.
ToolMessage_Anonymous(tool_call, content) == Message("tool", content, None, <<>>)

\* {"role": "tool", "tool_call_id": tool_call.id, "content": tool_result_content}
ToolMessage(tool_call, content) == Message("tool", content, tool_call.id, <<>>)

\* The loop body without its messages.append.
WithToolMessage_Deferred(msgs, tool_call, content) == msgs

\* messages.append(tool_message)
WithToolMessage(msgs, tool_call, content) ==
    Append(msgs, ToolMessage(tool_call, content))

\* final_text kept in one list that every call in flight appends to.
Announce_Shared(ft, q, text) == [p \in DOMAIN ft |-> Append(ft[p], text)]

\* final_text.append(f"Calling tool ..."): final_text is a local of the call.
Announce(ft, q, text) == [ft EXCEPT ![q] = Append(@, text)]

\* A loop that takes the same tool call again.
NextIteration_Again(idx) == idx

\* `for tool_call in ...tool_calls`: the body has run, the next call is taken.
NextIteration(idx) == idx + 1

\* isinstance(tool_args, dict) and both template keys are in it.
IsTemplateRequest(args) ==
    /\ args.t = "dict"
    /\ HasKey(args, "prompt_template")
    /\ HasKey(args, "template_args")

\* {k: str(v) for k, v in template_args.items()}
StringArgs(template_args) ==
    PyDict([k \in 1..Len(template_args.d) |->
              << template_args.d[k][1], PyStrVal(PyStr(template_args.d[k][2])) >>])

RECURSIVE AssistantLines(_)
\* f"LLM response: {template_message}" of every assistant message, in order;
\* an item without a role raises and ends the loop there.
AssistantLines(msgs) ==
    IF msgs = <<>> THEN <<>>
    ELSE IF Head(msgs).role = None THEN <<>>
    ELSE IF Head(msgs).role = "assistant"
         THEN << "LLM response: "
                 \o PyRepr(PyDict(<< <<"role", PyStrVal(Head(msgs).role)>>,
                                      <<"content", PyStrVal(Head(msgs).text)>> >>)) >>
              \o AssistantLines(Tail(msgs))
         ELSE AssistantLines(Tail(msgs))

\* The fragments a rendered template adds: only when the object has both
\* `messages` and `message`.
TemplateFragments(template_response) ==
    IF template_response.has_messages /\ template_response.has_message
    THEN AssistantLines(template_response.messages)
    ELSE <<>>

\* The exception raised inside the template block, if any: the one of
\* session.get_prompt, or the AttributeError of a line without a role.
TemplateError(ok, template_response) ==
    IF ~ok THEN Raise("McpError", McpErrorText)
    ELSE IF /\ template_response.has_messages /\ template_response.has_message
            /\ \E k \in 1..Len(template_response.messages) :
                   template_response.messages[k].role = None
    THEN Raise("AttributeError", "'dict' object has no attribute 'role'")
    ELSE Running

\* An exception of the template block that leaves process_query.
TemplateErrorHandled_Propagating(exc) == exc

\* except Exception as e: print(...) -- process_query goes on.
TemplateErrorHandled(exc) == Running

\* Template handling that also puts the surfaced lines into the conversation.
MessagesAfterTemplate_Extended(msgs, template_response) ==
    msgs \o [k \in 1..Len(TemplateFragments(template_response)) |->
                Message("assistant", TemplateFragments(template_response)[k], None, <<>>)]

\* messages after the template block: the block appends to final_text only and
\* has no statement on messages.
MessagesAfterTemplate(msgs, template_response) == msgs

\* A direct answer given the label of a closing answer.
DirectAnswer_Labelled(ft, content) == Append(ft, "LLM final response: " \o content)

\* final_text.append(response.choices[0].message.content)
DirectAnswer(ft, content) == Append(ft, content)

\* final_text.append("LLM final response: " + content)
FinalAnswerFragment(ft, content) == Append(ft, "LLM final response: " \o content)

\* "LLM final response: " + None
ConcatNoneText == "can only concatenate str (not \"NoneType\") to str"

\* An except clause that answers with the error text alone.
FinalCallError_Alone(ft, text) == << "Error in final LLM call: " \o text >>

\* final_text.append("Error in final LLM call: " + str(e))
FinalCallError(ft, text) == Append(ft, "Error in final LLM call: " \o text)

\* "\n".join(final_text): a TypeError when a fragment is None.
ReturnJoined(ft) ==
    IF \E k \in 1..Len(ft) : ft[k] = None
    THEN LET k == CHOOSE j \in 1..Len(ft) :
                      ft[j] = None /\ \A m \in 1..(j - 1) : ft[m] # None
         IN Raise("TypeError", "sequence item " \o ToString(k - 1)
                                \o ": expected str instance, NoneType found")
    ELSE Return(JoinWith("\n", ft))

\* `not mcp_client` in the handler.
ClientMissing(client) == client = "None"

\* A session that is taken to be there whatever self.session holds.
SessionMissing_Never(s) == FALSE

\* self.session.list_tools() with self.session = None.
SessionMissing(s) == s = "None"
NoSessionText == "'NoneType' object has no attribute 'list_tools'"

\* response.choices on the ListToolsResult still bound to `response`.
NoChoicesText == "'ListToolsResult' object has no attribute 'choices'"

\* tool_args read before any json.loads succeeded.
UnboundText ==
    "cannot access local variable 'tool_args' where it is not associated with a value"

\* A handler that lets the exception of process_query out as an HTTP error.
AppEnvelope_Reraising(outcome) ==
    IF outcome.kind = "return"
    THEN QueryResponse(TRUE, outcome.value, None)
    ELSE HTTPException(500, outcome.value)

\* The handler's try/except around mcp_client.process_query.
AppEnvelope(outcome) ==
    IF outcome.kind = "return"
    THEN QueryResponse(TRUE, outcome.value, None)
    ELSE QueryResponse(FALSE, None, outcome.value)

-----------------------------------------------------------------------------
VARIABLES
    lifecycle,    \* of the FastAPI app: imported, running, startup_failed, stopped
    mcp_client,   \* app.py's global: "None" or "client"
    session,      \* MCPClient.session: "None" or "set"
    exit_stack,   \* MCPClient.exit_stack: "empty", "open" or "closed"
    pc,           \* where each request is
    messages,     \* process_query's messages
    response,     \* process_query's local `response`
    call_idx,     \* position of the for loop in message.tool_calls
    tool_args,    \* process_query's local tool_args
    final_text,   \* process_query's final_text
    rv,           \* how MCPClient.process_query ended
    http,         \* what the handler answered
    llm_log,      \* calls made to llm.chat.completions.create
    tool_log,     \* calls made to session.call_tool
    prompt_log    \* calls made to session.get_prompt

service == << lifecycle, mcp_client, session, exit_stack >>
locals == << messages, response, call_idx, tool_args, final_text >>
logs == << llm_log, tool_log, prompt_log >>
vars == << service, pc, locals, rv, http, logs >>

Init ==
    /\ lifecycle = "imported"
    /\ mcp_client = "None"
    /\ session = "None"
    /\ exit_stack = "empty"
    /\ pc = [q \in QueryIds |-> "idle"]
    /\ messages = [q \in QueryIds |-> <<>>]
    /\ response = [q \in QueryIds |-> NoResult]
    /\ call_idx = [q \in QueryIds |-> 0]
    /\ tool_args = [q \in QueryIds |-> Unbound]
    /\ final_text = [q \in QueryIds |-> <<>>]
    /\ rv = [q \in QueryIds |-> Running]
    /\ http = [q \in QueryIds |-> NoReply]
    /\ llm_log = [q \in QueryIds |-> <<>>]
    /\ tool_log = [q \in QueryIds |-> <<>>]
    /\ prompt_log = [q \in QueryIds |-> <<>>]

\* The collaborator process answers only while the exit stack holds it open.
SessionAlive == session = "set" /\ exit_stack = "open"

-----------------------------------------------------------------------------
(* The service's lifecycle (app.py startup_event / shutdown_event).        *)

StartupOutcomes == {"constructor_fails", "transport_fails", "handshake_fails", "connected"}

\* startup_event: MCPClient(), then connect_to_server; any failure is re-raised.
StartupEvent ==
    /\ lifecycle = "imported"
    /\ \E outcome \in StartupOutcomes :
         /\ mcp_client' = IF outcome = "constructor_fails" THEN "None" ELSE "client"
         /\ session' = IF outcome \in {"handshake_fails", "connected"}
                       THEN "set" ELSE "None"
         /\ exit_stack' = IF outcome \in {"handshake_fails", "connected"}
                          THEN "open" ELSE "empty"
         /\ lifecycle' = IF outcome = "connected" THEN "running" ELSE "startup_failed"
    /\ UNCHANGED << pc, locals, rv, http, logs >>

\* shutdown_event: cleanup() closes the exit stack and swallows what it raises.
ShutdownEvent ==
    /\ lifecycle = "running"
    /\ lifecycle' = "stopped"
    /\ exit_stack' = IF mcp_client # "None" THEN "closed" ELSE exit_stack
    /\ UNCHANGED << mcp_client, session, pc, locals, rv, http, logs >>

-----------------------------------------------------------------------------
(* One request: app.py process_query around MCPClient.process_query.       *)

\* MCPClient.process_query ends with `outcome`; the handler wraps it.
Finish(q, outcome) ==
    /\ rv' = [rv EXCEPT ![q] = outcome]
    /\ http' = [http EXCEPT ![q] = AppEnvelope(outcome)]
    /\ pc' = [pc EXCEPT ![q] = "done"]

\* POST /query arrives: the handler's guard, then process_query up to its first
\* await, session.list_tools().  The server that routes requests is not in the
\* source; the handler can be entered in every state of the service.
AppProcessQuery(q) ==
    /\ pc[q] = "idle"
    /\ IF ClientMissing(mcp_client)
       THEN /\ http' = [http EXCEPT ![q] = HTTPException(500, "MCP client not initialized")]
            /\ pc' = [pc EXCEPT ![q] = "done"]
            /\ UNCHANGED << messages, rv >>
       ELSE /\ messages' = [messages EXCEPT ![q] = InitialMessagesOf(QueryOf(q))]
            /\ IF SessionMissing(session)
               THEN Finish(q, Raise("AttributeError", NoSessionText))
               ELSE /\ pc' = [pc EXCEPT ![q] = "list_tools"]
                    /\ UNCHANGED << rv, http >>
    /\ UNCHANGED << service, response, call_idx, tool_args, final_text, logs >>

\* session.list_tools() answers: the tool list is bound to `response`, or the
\* collaborator's error leaves process_query.
ListToolsReturns(q) ==
    /\ pc[q] = "list_tools"
    /\ \E ok \in {b \in BOOLEAN : b => SessionAlive} :
         IF ok
         THEN /\ response' = [response EXCEPT ![q] = ListToolsResult]
              /\ pc' = [pc EXCEPT ![q] = "initial_completion"]
              /\ UNCHANGED << rv, http >>
         ELSE /\ Finish(q, Raise("McpError", McpErrorText))
              /\ UNCHANGED response
    /\ UNCHANGED << service, messages, call_idx, tool_args, final_text, logs >>

\* What llm.chat.completions.create can do on the initial call.
InitialOutcomes ==
    { [ok |-> FALSE, message |-> [content |-> None, tool_calls |-> <<>>]] }
    \cup { [ok |-> TRUE, message |-> m] : m \in InitialMessages }

\* One logged completion call.
LLMCall(mode, with_tools, temperature, msgs, ok, content) ==
    [mode |-> mode, tools |-> with_tools, temperature |-> temperature,
     messages |-> msgs, ok |-> ok, content |-> content]

\* The initial completion (a blocking call) and the branch on tool_calls.  A
\* failure is printed and swallowed; `response` then still holds the tool list
\* and response.choices raises.
InitialCompletion(q) ==
    /\ pc[q] = "initial_completion"
    /\ \E outcome \in InitialOutcomes :
         /\ llm_log' = [llm_log EXCEPT ![q] =
                Append(@, LLMCall("initial", TRUE, "unset", messages[q], outcome.ok,
                                  outcome.message.content))]
         /\ response' = [response EXCEPT ![q] =
                IF outcome.ok THEN ChatCompletion(outcome.message) ELSE @]
         /\ IF response'[q].type # "ChatCompletion"
            THEN /\ Finish(q, Raise("AttributeError", NoChoicesText))
                 /\ UNCHANGED << messages, final_text, call_idx >>
            ELSE /\ messages' = [messages EXCEPT ![q] =
                        Append(@, Message("assistant", response'[q].content, None,
                                          response'[q].tool_calls))]
                 /\ IF response'[q].tool_calls # <<>>
                    THEN /\ final_text' = [final_text EXCEPT ![q] = <<>>]
                         /\ call_idx' = [call_idx EXCEPT ![q] = 1]
                         /\ pc' = [pc EXCEPT ![q] = "tool_loop"]
                         /\ UNCHANGED << rv, http >>
                    ELSE /\ final_text' = [final_text EXCEPT ![q] =
                                DirectAnswer(<<>>, response'[q].content)]
                         /\ Finish(q, ReturnJoined(final_text'[q]))
                         /\ UNCHANGED call_idx
    /\ UNCHANGED << service, tool_args, tool_log, prompt_log >>

\* try: tool_args = json.loads(arguments); except: print -- a failed parse leaves
\* tool_args as it was.
ParsedArgs(raw, previous) ==
    IF JsonLoads(raw).ok THEN JsonLoads(raw).value ELSE previous

\* One logged session.call_tool.
ToolCall(idx, name, args) ==
    [idx |-> idx, name |-> name, args |-> args, outcome |-> "pending",
     result |-> NoResponse]

\* The head of the for loop: the loop ends and the joined fragments are returned,
\* or the next tool call is parsed, announced and sent to session.call_tool.
NextToolCall(q) ==
    /\ pc[q] = "tool_loop"
    /\ IF call_idx[q] > Len(response[q].tool_calls)
       THEN /\ Finish(q, ReturnJoined(final_text[q]))
            /\ UNCHANGED << tool_args, final_text, tool_log >>
       ELSE LET tool_call == response[q].tool_calls[call_idx[q]]
                args == ParsedArgs(tool_call.arguments, tool_args[q])
            IN /\ tool_args' = [tool_args EXCEPT ![q] = args]
               /\ IF args = Unbound
                  THEN /\ Finish(q, Raise("UnboundLocalError", UnboundText))
                       /\ UNCHANGED << final_text, tool_log >>
                  ELSE /\ final_text' =
                              Announce(final_text, q, Announcement(tool_call.name, args))
                       /\ tool_log' = [tool_log EXCEPT ![q] =
                              Append(@, ToolCall(call_idx[q], tool_call.name, args))]
                       /\ pc' = [pc EXCEPT ![q] = "call_tool"]
                       /\ UNCHANGED << rv, http >>
    /\ UNCHANGED << service, messages, response, call_idx, llm_log, prompt_log >>

\* What session.call_tool can do: raise, or (while the server lives) answer.
CallToolOutcomes ==
    { [ok |-> FALSE, result |-> NoResponse] }
    \cup { [ok |-> TRUE, result |-> r] : r \in IF SessionAlive THEN ToolResponses ELSE {} }

\* The last logged call with its outcome filled in.
Answered(log, outcome, result) ==
    [log EXCEPT ![Len(log)] = [@ EXCEPT !.outcome = outcome, !.result = result]]

\* One logged session.get_prompt.
PromptCall(idx, name, args) ==
    [idx |-> idx, name |-> name, args |-> args, outcome |-> "pending",
     result |-> NoPrompt]

\* session.call_tool answers.  An exception leaves process_query (nothing around
\* the await catches it).  A result is turned into text, appended to final_text and,
\* as the tool message, to messages; then the template check on tool_args either
\* awaits session.get_prompt or goes on to the next completion.
CallToolReturns(q) ==
    /\ pc[q] = "call_tool"
    /\ \E outcome \in CallToolOutcomes :
         IF ~outcome.ok
         THEN /\ tool_log' = [tool_log EXCEPT ![q] = Answered(@, "raise", NoResponse)]
              /\ Finish(q, Raise("McpError", McpErrorText))
              /\ UNCHANGED << messages, final_text, prompt_log >>
         ELSE LET tool_call == response[q].tool_calls[call_idx[q]]
                  text == ToolResultContent(outcome.result)
              IN /\ tool_log' = [tool_log EXCEPT ![q] = Answered(@, "ok", outcome.result)]
                 /\ IF text.kind = "raise"
                    THEN /\ Finish(q, text)
                         /\ UNCHANGED << messages, final_text, prompt_log >>
                    ELSE /\ final_text' = [final_text EXCEPT ![q] = Append(@, text.value)]
                         /\ messages' = [messages EXCEPT ![q] =
                                WithToolMessage(@, tool_call, text.value)]
                         /\ UNCHANGED << rv, http >>
                         /\ IF /\ IsTemplateRequest(tool_args[q])
                               /\ GetKey(tool_args[q], "template_args").t = "dict"
                            THEN /\ prompt_log' = [prompt_log EXCEPT ![q] =
                                       Append(@, PromptCall(call_idx[q],
                                          PyStr(GetKey(tool_args[q], "prompt_template")),
                                          StringArgs(GetKey(tool_args[q], "template_args"))))]
                                 /\ pc' = [pc EXCEPT ![q] = "get_prompt"]
                            ELSE /\ pc' = [pc EXCEPT ![q] = "final_completion"]
                                 /\ UNCHANGED prompt_log
    /\ UNCHANGED << service, response, call_idx, tool_args, llm_log >>

\* What session.get_prompt can do.
GetPromptOutcomes ==
    { [ok |-> FALSE, result |-> NoPrompt] }
    \cup { [ok |-> TRUE, result |-> r] : r \in IF SessionAlive THEN PromptResponses ELSE {} }

\* session.get_prompt answers: its assistant lines go to final_text; an exception
\* is printed and swallowed.  messages is not touched.
GetPromptReturns(q) ==
    /\ pc[q] = "get_prompt"
    /\ \E outcome \in GetPromptOutcomes :
         LET exc == TemplateError(outcome.ok, outcome.result)
             after == IF exc.kind = "raise" THEN TemplateErrorHandled(exc) ELSE Running
         IN /\ prompt_log' = [prompt_log EXCEPT ![q] =
                   Answered(@, IF outcome.ok THEN "ok" ELSE "raise", outcome.result)]
            /\ final_text' = [final_text EXCEPT ![q] =
                   IF outcome.ok THEN @ \o TemplateFragments(outcome.result) ELSE @]
            /\ messages' = [messages EXCEPT ![q] =
                   IF outcome.ok THEN MessagesAfterTemplate(@, outcome.result) ELSE @]
            /\ IF after.kind = "raise"
               THEN Finish(q, after)
               ELSE /\ pc' = [pc EXCEPT ![q] = "final_completion"]
                    /\ UNCHANGED << rv, http >>
    /\ UNCHANGED << service, response, call_idx, tool_args, llm_log, tool_log >>

\* What llm.chat.completions.create can do on the call after a tool result.
FinalOutcomes ==
    { [ok |-> FALSE, content |-> None] }
    \cup { [ok |-> TRUE, content |-> c] : c \in FinalContents }

\* "Another call to LLM with updated messages", in the body of the for loop: its
\* text is appended and the loop goes on; an exception (of the call, or of
\* concatenating a None content) appends the error text and returns at once.
FinalCompletion(q) ==
    /\ pc[q] = "final_completion"
    /\ \E outcome \in FinalOutcomes :
         /\ llm_log' = [llm_log EXCEPT ![q] =
                Append(@, LLMCall("final", FALSE, "0.5", messages[q], outcome.ok,
                                  outcome.content))]
         /\ IF outcome.ok /\ outcome.content # None
            THEN /\ final_text' = [final_text EXCEPT ![q] =
                        FinalAnswerFragment(@, outcome.content)]
                 /\ call_idx' = [call_idx EXCEPT ![q] = NextIteration(@)]
                 /\ pc' = [pc EXCEPT ![q] = "tool_loop"]
                 /\ UNCHANGED << rv, http >>
            ELSE /\ final_text' = [final_text EXCEPT ![q] =
                        FinalCallError(@, IF outcome.ok THEN ConcatNoneText
                                          ELSE LLMErrorText)]
                 /\ Finish(q, ReturnJoined(final_text'[q]))
                 /\ UNCHANGED call_idx
    /\ UNCHANGED << service, messages, response, tool_args, tool_log, prompt_log >>

-----------------------------------------------------------------------------
Next ==
    \/ StartupEvent
    \/ ShutdownEvent
    \/ \E q \in Clients : AppProcessQuery(q)
    \/ \E q \in Clients : ListToolsReturns(q)
    \/ \E q \in Clients : InitialCompletion(q)
    \/ \E q \in Clients : NextToolCall(q)
    \/ \E q \in Clients : CallToolReturns(q)
    \/ \E q \in Clients : GetPromptReturns(q)
    \/ \E q \in Clients : FinalCompletion(q)

Spec == Init /\ [][Next]_vars

\* Every call a query waits for answers or fails, and the code between two
\* awaits runs on.
QueryFairness ==
    \A q \in Clients :
        /\ WF_vars(ListToolsReturns(q))
        /\ WF_vars(InitialCompletion(q))
        /\ WF_vars(NextToolCall(q))
        /\ WF_vars(CallToolReturns(q))
        /\ WF_vars(GetPromptReturns(q))
        /\ WF_vars(FinalCompletion(q))

FairSpec == Spec /\ QueryFairness

\* Two requests in flight at once on the one client.  The collaborators' answers
\* are narrowed so that the interleavings, not the answers, fill the state space:
\* startup succeeds before the requests arrive, tool calls carry arguments that
\* parse, tools answer without isError, and a rendered template is the one with
\* an assistant line and `message`.
ConcArguments == {RawWorker, RawTemplate}

ConcEnv ==
    /\ lifecycle # "startup_failed"
    /\ \A q \in QueryIds :
         /\ pc[q] # "idle" => lifecycle # "imported"
         /\ \A k \in 1..Len(response[q].tool_calls) :
                response[q].tool_calls[k].arguments \in ConcArguments
         /\ \A k \in 1..Len(tool_log[q]) : ~tool_log[q][k].result.isError
         /\ \A k \in 1..Len(prompt_log[q]) :
                prompt_log[q][k].outcome = "ok" =>
                    /\ prompt_log[q][k].result.has_message
                    /\ TemplateError(TRUE, prompt_log[q][k].result).kind # "raise"

ConcNext ==
    \/ StartupEvent /\ ConcEnv'
    \/ ShutdownEvent /\ ConcEnv'
    \/ \E q \in QueryIds : AppProcessQuery(q) /\ ConcEnv'
    \/ \E q \in QueryIds : ListToolsReturns(q) /\ ConcEnv'
    \/ \E q \in QueryIds : InitialCompletion(q) /\ ConcEnv'
    \/ \E q \in QueryIds : NextToolCall(q) /\ ConcEnv'
    \/ \E q \in QueryIds : CallToolReturns(q) /\ ConcEnv'
    \/ \E q \in QueryIds : GetPromptReturns(q) /\ ConcEnv'
    \/ \E q \in QueryIds : FinalCompletion(q) /\ ConcEnv'

ConcSpec == Init /\ [][ConcNext]_vars

-----------------------------------------------------------------------------
(* Vocabulary of the properties.                                           *)

Finished(q) == pc[q] = "done"

\* The initial completion answered, so `response` is its ChatCompletion.
GotCompletion(q) == response[q].type = "ChatCompletion"

\* The ToolCallRequests of the query.
Requests(q) == response[q].tool_calls

ParseFails(tool_call) == ~JsonLoads(tool_call.arguments).ok

IsToolMessage(m) == m.role = "tool"
ToolMessages(msgs) == SelectSeq(msgs, IsToolMessage)

Range(seq) == { seq[k] : k \in 1..Len(seq) }

RECURSIVE IsSubseq(_, _)
\* a is b with some elements left out.
IsSubseq(a, b) ==
    IF a = <<>> THEN TRUE
    ELSE IF b = <<>> THEN FALSE
    ELSE IF Head(a) = Head(b) THEN IsSubseq(Tail(a), Tail(b))
    ELSE IsSubseq(a, Tail(b))

\* No collaborator failed: no call_tool raised, every completion answered, and
\* every final completion carried a text.
CleanRun(q) ==
    /\ \A e \in Range(tool_log[q]) : e.outcome # "raise"
    /\ \A c \in Range(llm_log[q]) : c.ok /\ (c.mode = "final" => c.content # None)

-----------------------------------------------------------------------------
(* C1: when process_query finishes after an initial completion that asked  *)
(* for N tool calls, messages holds exactly N tool messages, the i-th with *)
(* the tool_call_id of the i-th request, whatever the collaborators did.   *)
C1_ToolMessagesMatchRequests ==
    \A q \in QueryIds :
        Finished(q) /\ GotCompletion(q) =>
            LET tm == ToolMessages(messages[q])
            IN /\ Len(tm) = Len(Requests(q))
               /\ \A k \in 1..Len(tm) : tm[k].tool_call_id = Requests(q)[k].id

(* C2: when the arguments of tool call i do not parse, every later tool    *)
(* call whose arguments do parse is still sent to call_tool with its own   *)
(* parsed arguments -- stated here for the runs in which no collaborator   *)
(* fails, so that only the parse failure is in play.                       *)
C2_LaterCallsStillExecuted ==
    \A q \in QueryIds :
        Finished(q) /\ GotCompletion(q) /\ CleanRun(q) =>
            \A i \in 1..Len(Requests(q)) :
                ParseFails(Requests(q)[i]) =>
                    \A j \in (i + 1)..Len(Requests(q)) :
                        ~ParseFails(Requests(q)[j]) =>
                            \E e \in Range(tool_log[q]) :
                                /\ e.idx = j
                                /\ e.name = Requests(q)[j].name
                                /\ e.args = JsonLoads(Requests(q)[j].arguments).value

(* C3: a tool call whose arguments do not parse is skipped: no call_tool   *)
(* is made for it and no announcement of it is put in final_text.          *)
C3_UnparsableCallSkipped ==
    \A q \in QueryIds :
        \A i \in 1..Len(Requests(q)) :
            ParseFails(Requests(q)[i]) =>
                \A e \in Range(tool_log[q]) :
                    /\ e.idx # i
                    /\ e.idx = i => Announcement(e.name, e.args) \notin Range(final_text[q])

(* C4: a query whose initial completion asked for N >= 1 tool calls makes  *)
(* exactly two completion calls, the initial one and one final one, and    *)
(* the final one is sent the tool message of every requested call --       *)
(* stated for the runs in which nothing fails and every argument parses.   *)
C4_ExactlyTwoCompletions ==
    \A q \in QueryIds :
        ( /\ Finished(q) /\ GotCompletion(q) /\ CleanRun(q)
          /\ Len(Requests(q)) >= 1
          /\ \A k \in 1..Len(Requests(q)) : ~ParseFails(Requests(q)[k]) ) =>
            /\ Len(llm_log[q]) = 2
            /\ llm_log[q][1].mode = "initial"
            /\ llm_log[q][2].mode = "final"
            /\ LET tm == ToolMessages(llm_log[q][2].messages)
               IN /\ Len(tm) = Len(Requests(q))
                  /\ \A k \in 1..Len(tm) : tm[k].tool_call_id = Requests(q)[k].id

\* The last completion call of the query was a final call that raised.
FinalCallFailed(q) ==
    /\ llm_log[q] # <<>>
    /\ llm_log[q][Len(llm_log[q])].mode = "final"
    /\ ~llm_log[q][Len(llm_log[q])].ok

RECURSIVE ExecutedFragments(_)
\* The announcement and the result text of every call_tool that answered, in
\* the order the calls were made.
ExecutedFragments(log) ==
    IF log = <<>> THEN <<>>
    ELSE (IF Head(log).outcome = "ok"
          THEN << Announcement(Head(log).name, Head(log).args),
                  ToolResultContent(Head(log).result).value >>
          ELSE <<>>)
         \o ExecutedFragments(Tail(log))

(* C5: when the final completion call fails, process_query returns the     *)
(* joined fragments; they hold the announcement and the result of every    *)
(* tool call that was executed, in execution order, and the last fragment  *)
(* is the text of the final call's error.                                  *)
C5_FinalFailureKeepsToolWork ==
    \A q \in QueryIds :
        Finished(q) /\ FinalCallFailed(q) =>
            /\ rv[q] = Return(JoinWith("\n", final_text[q]))
            /\ IsSubseq(ExecutedFragments(tool_log[q]), final_text[q])
            /\ final_text[q][Len(final_text[q])] = "Error in final LLM call: " \o LLMErrorText

\* The final call fails in the second round, after two executed tool calls.
C5_Witness ==
    \E q \in QueryIds :
        /\ Finished(q) /\ FinalCallFailed(q)
        /\ Len(tool_log[q]) = 2
        /\ \A e \in Range(tool_log[q]) : e.outcome = "ok"

(* C6: when call_tool raises for a tool call, the exception does not leave *)
(* the query: its text becomes the call's result and a tool message with   *)
(* the call's id is appended to messages.                                  *)
C6_ToolFailureBecomesResult ==
    \A q \in QueryIds :
        \A e \in Range(tool_log[q]) :
            e.outcome = "raise" =>
                /\ rv[q].kind # "raise"
                /\ \E m \in Range(messages[q]) :
                       /\ m.role = "tool"
                       /\ m.tool_call_id = Requests(q)[e.idx].id
                       /\ m.content = McpErrorText

\* The envelope the handler owes a finished orchestration: success and the
\* response string, or failure and the exception's text.
EnvelopeFor(outcome, reply) ==
    /\ reply.kind = "QueryResponse"
    /\ outcome.kind = "return" =>
           reply.success /\ reply.response = outcome.value /\ reply.error = None
    /\ outcome.kind = "raise" =>
           ~reply.success /\ reply.error = outcome.value /\ reply.response = None

(* C7 as stated: every finished request, in every state of the service     *)
(* (client uninitialised included), was answered with a well-formed        *)
(* envelope and nothing was raised out of the handler.                     *)
C7_AlwaysEnvelope ==
    \A q \in QueryIds :
        Finished(q) => EnvelopeFor(rv[q], http[q])

(* C7 as amended: a request that finishes while the MCP client object      *)
(* exists is answered with the envelope of how the orchestration ended     *)
(* (an exception gives success = false and its text as error, a return     *)
(* gives success = true and the string as response); a request that finds  *)
(* the client uninitialised never starts the orchestration and the handler *)
(* raises HTTP 500 "MCP client not initialized".                           *)
C7_EnvelopeWhenClientExists ==
    [][ \A q \in QueryIds :
          pc[q] # "done" /\ pc'[q] = "done" =>
              IF mcp_client = "None"
              THEN /\ http'[q] = HTTPException(500, "MCP client not initialized")
                   /\ rv'[q] = Running
              ELSE /\ rv'[q].kind \in {"return", "raise"}
                   /\ EnvelopeFor(rv'[q], http'[q]) ]_vars

\* An exception of the orchestration answered as success = false.
C7_Witness ==
    \E q \in QueryIds :
        /\ Finished(q)
        /\ rv[q] = Raise("McpError", McpErrorText)
        /\ tool_log[q] # <<>>
        /\ http[q] = QueryResponse(FALSE, None, McpErrorText)

(* C8: a request made while no session is established (no client object,   *)
(* or a client whose session is None) fails in that very step, and no      *)
(* completion, no call_tool and no get_prompt is ever made for it.         *)
C8_NoSessionFailsImmediately ==
    [][ \A q \in QueryIds :
          /\ ( pc[q] = "idle" /\ pc'[q] # "idle"
               /\ (mcp_client = "None" \/ session = "None") ) =>
                 /\ pc'[q] = "done"
                 /\ \/ http'[q].kind = "HTTPException"
                    \/ /\ http'[q] = QueryResponse(FALSE, None, NoSessionText)
                       /\ rv'[q].kind = "raise"
                 /\ llm_log'[q] = <<>> /\ tool_log'[q] = <<>> /\ prompt_log'[q] = <<>>
          /\ pc[q] = "done" =>
                 /\ pc'[q] = "done"
                 /\ llm_log'[q] = llm_log[q]
                 /\ tool_log'[q] = tool_log[q]
                 /\ prompt_log'[q] = prompt_log[q] ]_vars

\* A client object without a session met a request.
C8_Witness ==
    \E q \in QueryIds :
        /\ Finished(q)
        /\ mcp_client = "client" /\ session = "None"
        /\ rv[q] = Raise("AttributeError", NoSessionText)
        /\ llm_log[q] = <<>> /\ tool_log[q] = <<>> /\ prompt_log[q] = <<>>

(* C9: when the initial completion answers without tool calls, final_text  *)
(* is the single fragment of the assistant's text, the returned string is  *)
(* exactly that text, no tool is called, no template fetched and no second *)
(* completion made.                                                        *)
C9_DirectAnswerOnly ==
    \A q \in QueryIds :
        Finished(q) /\ GotCompletion(q) /\ Requests(q) = <<>> =>
            /\ final_text[q] = << response[q].content >>
            /\ response[q].content # None => rv[q] = Return(response[q].content)
            /\ Len(llm_log[q]) = 1
            /\ tool_log[q] = <<>>
            /\ prompt_log[q] = <<>>

\* The direct text came back as the whole answer.
C9_Witness ==
    \E q \in QueryIds :
        /\ Finished(q) /\ GotCompletion(q) /\ Requests(q) = <<>>
        /\ rv[q] = Return(DirectText)
        /\ http[q] = QueryResponse(TRUE, DirectText, None)

(* C10: a failure of the initial completion call is caught, no tool is     *)
(* executed, and the orchestration does not fault on the completion result *)
(* that was never produced.                                                *)
C10_InitialFailureNoFault ==
    \A q \in QueryIds :
        ( /\ Finished(q)
          /\ llm_log[q] # <<>>
          /\ ~llm_log[q][1].ok ) =>
            /\ tool_log[q] = <<>>
            /\ rv[q].kind # "raise"

\* a is the beginning of b.
IsPrefix(a, b) == Len(a) <= Len(b) /\ SubSeq(b, 1, Len(a)) = a

\* Every tool message answers a tool call that an assistant message earlier in
\* the sequence carries.
WellReferenced(msgs) ==
    \A k \in 1..Len(msgs) :
        msgs[k].role = "tool" =>
            \E j \in 1..(k - 1) :
                /\ msgs[j].role = "assistant"
                /\ \E t \in 1..Len(msgs[j].tool_calls) :
                       msgs[j].tool_calls[t].id = msgs[k].tool_call_id

(* C11: messages is append-only (every step leaves the messages already    *)
(* there as they are, in place), the assistant message of the initial      *)
(* completion comes before any tool message, and every tool message's      *)
(* tool_call_id is the id of a tool call of an earlier assistant message.  *)
C11_AppendOnlyWellReferenced ==
    [][ \A q \in QueryIds :
          /\ IsPrefix(messages[q], messages'[q])
          /\ WellReferenced(messages'[q])
          /\ \A k \in 1..Len(messages'[q]) :
                 messages'[q][k].role = "tool" =>
                     k > 3 /\ messages'[q][3].role = "assistant" ]_vars

\* Two tool messages stand behind the assistant message.
C11_Witness ==
    \E q \in QueryIds :
        /\ Len(messages[q]) = 5
        /\ messages[q][3].role = "assistant"
        /\ messages[q][4].role = "tool" /\ messages[q][4].tool_call_id = ToolCallId(1)
        /\ messages[q][5].role = "tool" /\ messages[q][5].tool_call_id = ToolCallId(2)

\* Every text a rendered template holds, raw or as the line made of it.
TemplateTexts ==
    UNION { { r.messages[k].text : k \in 1..Len(r.messages) }
            \cup Range(AssistantLines(r.messages)) : r \in PromptResponses }

(* C12: handling the template request of a tool call never changes the     *)
(* conversation: across the get_prompt answer (rendered or raised) messages*)
(* is the same sequence, the step that detects the request adds the tool   *)
(* message of the call and nothing else, and no message ever holds a       *)
(* template line: those go to final_text alone.                            *)
C12_TemplateLeavesMessages ==
    [][ \A q \in QueryIds :
          /\ pc[q] = "get_prompt" => messages'[q] = messages[q]
          /\ Len(prompt_log'[q]) > Len(prompt_log[q]) =>
                 /\ Len(messages'[q]) = Len(messages[q]) + 1
                 /\ IsPrefix(messages[q], messages'[q])
                 /\ messages'[q][Len(messages'[q])].role = "tool"
          /\ \A k \in 1..Len(messages'[q]) :
                 messages'[q][k].content \notin TemplateTexts ]_vars

\* A rendered template has put its assistant line into final_text.
C12_Witness ==
    \E q \in QueryIds :
        /\ pc[q] = "final_completion"
        /\ prompt_log[q] # <<>>
        /\ prompt_log[q][Len(prompt_log[q])].outcome = "ok"
        /\ final_text[q] # <<>>
        /\ final_text[q][Len(final_text[q])] \in TemplateTexts

NotTemplateText(fragment) == fragment \notin TemplateTexts

(* C13: a query with N >= 1 tool calls that were all executed and whose    *)
(* completions all answered ends with final_text holding, besides the      *)
(* template lines, the announcement and the result of each call in arrival *)
(* order and then the closing text as the one last fragment; the value     *)
(* returned is the fragments joined by newlines.                           *)
C13_ClosingTextOnceAtEnd ==
    \A q \in QueryIds :
        ( /\ Finished(q) /\ GotCompletion(q) /\ CleanRun(q)
          /\ rv[q].kind = "return"
          /\ Len(Requests(q)) >= 1
          /\ \A k \in 1..Len(Requests(q)) : ~ParseFails(Requests(q)[k]) ) =>
            /\ SelectSeq(final_text[q], NotTemplateText)
                   = ExecutedFragments(tool_log[q])
                     \o << "LLM final response: " \o ClosingText >>
            /\ rv[q] = Return(JoinWith("\n", final_text[q]))

\* The template handling logged in `entry` ended in an exception: get_prompt
\* raised, or the rendered template broke the loop over its lines.
TemplateFailed(entry) ==
    \/ entry.outcome = "raise"
    \/ entry.outcome = "ok" /\ TemplateError(TRUE, entry.result).kind = "raise"

(* C14: a failure inside the template handling of tool call i is swallowed:*)
(* the step in which it happens leaves the query running, with messages as *)
(* they were, and goes on to the completion that follows the call; and a   *)
(* query with such a failure in which nothing else fails still sends every *)
(* later tool call to call_tool and returns its fragments.                 *)
C14_TemplateFailureSwallowed ==
    [][ \A q \in QueryIds :
          /\ ( /\ pc[q] = "get_prompt"
               /\ TemplateFailed(prompt_log'[q][Len(prompt_log'[q])]) ) =>
                 /\ rv'[q] = Running /\ http'[q] = http[q]
                 /\ messages'[q] = messages[q]
                 /\ call_idx'[q] = call_idx[q]
                 /\ pc'[q] = "final_completion"
          /\ \A e \in Range(prompt_log'[q]) :
                 ( /\ TemplateFailed(e)
                   /\ pc'[q] = "done" /\ rv'[q].kind = "return"
                   /\ \A t \in Range(tool_log'[q]) : t.outcome # "raise"
                   /\ \A c \in Range(llm_log'[q]) :
                          c.ok /\ (c.mode = "final" => c.content # None) ) =>
                     /\ \A j \in (e.idx + 1)..Len(response'[q].tool_calls) :
                            \E t \in Range(tool_log'[q]) : t.idx = j /\ t.outcome = "ok"
                     /\ \E k \in 1..Len(llm_log'[q]) :
                            /\ llm_log'[q][k].mode = "final"
                            /\ Len(ToolMessages(llm_log'[q][k].messages)) >= e.idx
                     /\ rv'[q] = Return(JoinWith("\n", final_text'[q])) ]_vars

\* get_prompt raised for the first of two tool calls, and the query went on to
\* execute the second and returned.
C14_Witness ==
    \E q \in QueryIds :
        /\ Finished(q) /\ rv[q].kind = "return"
        /\ prompt_log[q] # <<>>
        /\ prompt_log[q][1].idx = 1 /\ prompt_log[q][1].outcome = "raise"
        /\ Len(tool_log[q]) = 2
        /\ tool_log[q][2].outcome = "ok"

\* The parsed arguments of the request hold both template keys.
AsksForTemplate(tool_call) ==
    /\ JsonLoads(tool_call.arguments).ok
    /\ IsTemplateRequest(JsonLoads(tool_call.arguments).value)

(* C15: get_prompt is called for an executed tool call exactly when the    *)
(* parsed arguments of that call hold both template keys, and when it      *)
(* returns a well-formed rendered template the line of every assistant     *)
(* message of it is in final_text, in template order, and no line of       *)
(* another role is.                                                        *)
C15_TemplateLinesSurfaced ==
    \A q \in QueryIds :
        /\ \A e \in Range(tool_log[q]) :
               e.outcome = "ok" =>
                   ( (\E p \in Range(prompt_log[q]) : p.idx = e.idx)
                     <=> AsksForTemplate(Requests(q)[e.idx]) )
        /\ \A p \in Range(prompt_log[q]) :
               (p.outcome = "ok" /\ ~TemplateFailed(p)) =>
                   /\ IsSubseq(AssistantLines(p.result.messages), final_text[q])
                   /\ \A k \in 1..Len(p.result.messages) :
                          p.result.messages[k].role # "assistant" =>
                              p.result.messages[k].text \notin Range(final_text[q])

IsFinalCall(c) == c.mode = "final"

\* The positions of `log` whose call has not answered yet.
Pending(log) == { k \in 1..Len(log) : log[k].outcome = "pending" }

(* C16: within one query at most one call to the collaborator is awaiting  *)
(* its answer, it is the one the query is suspended at (completions block  *)
(* and are never left outstanding), and when call_tool has been started    *)
(* for tool call k every earlier call has answered and its tool message,   *)
(* carrying its id, is already in messages; the k-th completion after a    *)
(* tool result was sent the tool messages of calls 1..k.                   *)
C16_StrictlySequential ==
    \A q \in QueryIds :
        /\ Cardinality(Pending(tool_log[q])) + Cardinality(Pending(prompt_log[q])) <= 1
        /\ Pending(tool_log[q]) # {} <=> pc[q] = "call_tool"
        /\ Pending(prompt_log[q]) # {} <=> pc[q] = "get_prompt"
        /\ Pending(tool_log[q]) \subseteq {Len(tool_log[q])}
        /\ \A k \in 1..Len(tool_log[q]) :
               /\ tool_log[q][k].idx = k
               /\ \A i \in 1..(k - 1) :
                      /\ tool_log[q][i].outcome = "ok"
                      /\ Len(ToolMessages(messages[q])) >= i
                      /\ ToolMessages(messages[q])[i].tool_call_id = Requests(q)[i].id
        /\ LET finals == SelectSeq(llm_log[q], IsFinalCall)
           IN \A k \in 1..Len(finals) :
                  /\ k <= Len(tool_log[q]) /\ tool_log[q][k].outcome = "ok"
                  /\ Len(ToolMessages(finals[k].messages)) = k

\* call_tool for the second tool call is awaited, the first call's tool message
\* in place.
C16_Witness ==
    \E q \in QueryIds :
        /\ pc[q] = "call_tool" /\ call_idx[q] = 2
        /\ Pending(tool_log[q]) = {2}
        /\ Len(ToolMessages(messages[q])) = 1

\* The normalisation rule on a raw result: one that holds a sequence of content
\* items gives the texts of its items, in order, run together; anything else
\* that is not a text is stringified.
Normalized(r) ==
    IF r.shape \in {"CallToolResult", "list"} THEN ItemTexts(r.content)
    ELSE StrOfToolResponse(r)

(* C17: the text recorded for an answered tool call, as the result         *)
(* fragment in final_text and as the content of the call's tool message,   *)
(* is the normalisation of the raw result: for a result holding content    *)
(* items, the texts of the items concatenated in order.                    *)
C17_RecordedTextIsNormalized ==
    \A q \in QueryIds :
        \A k \in 1..Len(tool_log[q]) :
            tool_log[q][k].outcome = "ok" =>
                /\ Len(ToolMessages(messages[q])) >= k
                /\ ToolMessages(messages[q])[k].content = Normalized(tool_log[q][k].result)
                /\ Normalized(tool_log[q][k].result) \in Range(final_text[q])

\* Nothing was asked twice: one initial completion at most, and call_tool at
\* most once for each request.
NoRetries(q) ==
    /\ Cardinality({ k \in 1..Len(llm_log[q]) : llm_log[q][k].mode = "initial" }) <= 1
    /\ Len(tool_log[q]) <= Len(Requests(q))
    /\ \A i, j \in 1..Len(tool_log[q]) :
           i # j => tool_log[q][i].idx # tool_log[q][j].idx

(* C18: every query terminates without retries: when each awaited call     *)
(* answers or fails, a query that has been entered reaches its end, and at *)
(* no time has it made more than one initial completion or more than one   *)
(* call_tool for the same request.                                         *)
C18_TerminatesWithoutRetries ==
    /\ [](\A q \in QueryIds : NoRetries(q))
    /\ \A q \in Clients : (pc[q] # "idle") ~> (pc[q] = "done")

\* A query came to its end after two tool calls, each made once.
C18_Witness ==
    \E q \in QueryIds :
        /\ Finished(q) /\ rv[q].kind = "return"
        /\ Len(tool_log[q]) = 2
        /\ tool_log[q][1].idx = 1 /\ tool_log[q][2].idx = 2
        /\ Len(llm_log[q]) = 3

(* C19: once the service has left its running life -- by shutdown, or by  *)
(* a startup that failed after the transport was opened -- the exit stack  *)
(* that holds the transport and the session has been closed: it is never   *)
(* left open.                                                              *)
C19_SessionReleasedOnExit ==
    lifecycle \in {"startup_failed", "stopped"} => exit_stack # "open"

RECURSIVE Alone(_, _, _, _, _, _)
\* The loop of process_query run on its own, start to end, over the tool calls
\* `tcs` with the answers the collaborators gave: `tl` of call_tool, `pl` of
\* get_prompt, `fl` of the completions after a tool result.  Gives the fragments,
\* the messages and the outcome.
Alone(state, tcs, previous, tl, pl, fl) ==
    IF tcs = <<>> THEN [state EXCEPT !.rv = ReturnJoined(state.ft)]
    ELSE LET tool_call == Head(tcs)
             args == ParsedArgs(tool_call.arguments, previous)
             announced == [state EXCEPT
                              !.ft = Append(@, Announcement(tool_call.name, args))]
         IN IF args = Unbound
            THEN [state EXCEPT !.rv = Raise("UnboundLocalError", UnboundText)]
            ELSE IF tl = <<>> \/ Head(tl).outcome = "pending" THEN announced
            ELSE IF Head(tl).outcome = "raise"
            THEN [announced EXCEPT !.rv = Raise("McpError", McpErrorText)]
            ELSE LET text == ToolResultContent(Head(tl).result)
                     asks == /\ IsTemplateRequest(args)
                             /\ GetKey(args, "template_args").t = "dict"
                     rendered == asks /\ pl # <<>> /\ Head(pl).outcome = "ok"
                     recorded == [announced EXCEPT
                                    !.ft = Append(@, text.value)
                                           \o (IF rendered
                                               THEN TemplateFragments(Head(pl).result)
                                               ELSE <<>>),
                                    !.msgs = WithToolMessage(@, tool_call, text.value)]
                 IN IF text.kind = "raise" THEN [announced EXCEPT !.rv = text]
                    ELSE IF fl = <<>> \/ (asks /\ pl = <<>>) THEN recorded
                    ELSE IF Head(fl).ok /\ Head(fl).content # None
                    THEN Alone([recorded EXCEPT
                                   !.ft = FinalAnswerFragment(@, Head(fl).content)],
                               Tail(tcs), args, Tail(tl),
                               IF asks THEN Tail(pl) ELSE pl, Tail(fl))
                    ELSE LET failed == FinalCallError(recorded.ft,
                                           IF Head(fl).ok THEN ConcatNoneText
                                           ELSE LLMErrorText)
                         IN [recorded EXCEPT !.ft = failed, !.rv = ReturnJoined(failed)]

\* What query q gives when it runs with no other query in flight and the
\* collaborators answer as they answered q.
AloneResult(q) ==
    LET start == [ft |-> <<>>,
                  msgs |-> Append(InitialMessagesOf(QueryOf(q)),
                                  Message("assistant", response[q].content, None,
                                          Requests(q))),
                  rv |-> Running]
    IN IF Requests(q) = <<>>
       THEN [start EXCEPT !.ft = DirectAnswer(<<>>, response[q].content),
                          !.rv = ReturnJoined(DirectAnswer(<<>>, response[q].content))]
       ELSE Alone(start, Requests(q), Unbound, tool_log[q], prompt_log[q],
                  SelectSeq(llm_log[q], IsFinalCall))

(* C20: with two queries in flight on the one client, interleaved at every *)
(* step, each query's messages open with its own question and each call    *)
(* it logged was sent its own messages, and when a query that got its      *)
(* initial completion ends, its messages, its fragments and its outcome    *)
(* are those of running it alone with the answers it was given.            *)
C20_QueriesDoNotInterfere ==
    \A q \in QueryIds :
        /\ pc[q] # "idle" /\ messages[q] # <<>> =>
               /\ IsPrefix(InitialMessagesOf(QueryOf(q)), messages[q])
               /\ \A c \in Range(llm_log[q]) : IsPrefix(c.messages, messages[q])
        /\ pc[q] = "idle" =>
               /\ messages[q] = <<>> /\ final_text[q] = <<>>
               /\ rv[q] = Running /\ http[q] = NoReply
        /\ Finished(q) /\ GotCompletion(q) =>
               AloneResult(q) = [ft |-> final_text[q], msgs |-> messages[q], rv |-> rv[q]]

\* One query has ended after two tool calls and a rendered template while the
\* other is suspended in call_tool for its second tool call.
C20_Witness ==
    /\ Finished("q1") /\ rv["q1"].kind = "return"
    /\ Len(tool_log["q1"]) = 2 /\ prompt_log["q1"] # <<>>
    /\ pc["q2"] = "call_tool" /\ call_idx["q2"] = 2
    /\ final_text["q2"] # <<>>

====
